---- MODULE Spec2Model ----
(***************************************************************************)
(* Model of tobii_calibration.py (class MainApp): the calibration          *)
(* trajectory state machine (calibrate / run_calibration /                 *)
(* close_calibration), the shutdown sequence (prepare_to_close /           *)
(* close_app), the live sample projector (gaze_data_callback /             *)
(* user_position_guide_callback / plot_gaze / plot_eyes), the eye tracker  *)
(* selection (find_eyetrackers / select_eyetracker) and the calibration    *)
(* result plot (plot_calibration).                                         *)
(*                                                                         *)
(* Each part has its own specification (Spec, SpecProjector, SpecDevices,  *)
(* SpecRenderer) over the same variables.  In Spec a call of               *)
(* plot_calibration is counted (plots, image_saves); what the call draws   *)
(* is SpecRenderer, for every result of up to MaxPoints points.            *)
(* SpecInterleaved runs one session together with the two feeds, the       *)
(* samples arriving during the session's last MaxFeedTicks ticks.          *)
(*                                                                         *)
(* Numbers.  Normalised coordinates (0.0 .. 1.0) are kept in thousandths,  *)
(* so 0.02 is 20 and the tolerance abs_tol=0.001 is 1.  Every position the *)
(* trajectory visits is a multiple of 0.02 up to a float error below       *)
(* 1e-12, far inside the tolerance, so the float comparisons of the source *)
(* and the integer comparisons here agree on every tick.  The dot radius   *)
(* is an integer number of pixels in the source and here.                  *)
(*                                                                         *)
(* Scheduling.  Every handler runs to completion on the Tk event loop.     *)
(* All run_calibration timers use the same DELAY, so they fire in the      *)
(* order they were registered: `timers` is a FIFO.  A timer is a Tcl       *)
(* command owned by the widget it was registered on; destroying the widget *)
(* deletes the command, so a timer of a destroyed window never runs.       *)
(* The nested event processing inside parent.update(), window.update() and *)
(* the modal error box is not modelled.                                    *)
(*                                                                         *)
(* Init is the application after MainApp.__init__ with one eye tracker     *)
(* attached (find_eyetrackers selects it and subscribes both feeds) and a  *)
(* screen selected.  The device is assumed to accept                       *)
(* enter_calibration_mode and collect_data without raising, and play_sound *)
(* to return without raising.                                              *)
(***************************************************************************)
EXTENDS Integers, Sequences, FiniteSets, TLC

\* Number of times the Calibrate button is pressed in one run of the program.
MaxCalibrations == 2

FAKE_CALIBRATION == FALSE

\* abs_tol=0.001, in thousandths.
ABS_TOL == 1
\* Thousandths per unit: the scale radii are brought to before is_close.
Milli == 1000
\* STEP = 0.02, in thousandths.
STEP == 20
\* STEP_R = 2 px.
STEP_R == 2
calib_r_max == 30
calib_r_min == 2
\* self.calib_r = 30  (initial point radius)
InitialRadius == 30
\* self.calib_pos = [0.2, 0.6]  (initial position)
InitialPos == <<200, 600>>
\* 5-point calibration
calib_targets ==
    << <<100, 200>>, <<900, 200>>, <<100, 900>>, <<900, 900>>, <<500, 500>> >>

\* tr.CALIBRATION_STATUS_SUCCESS and any other status collect_data may return.
CALIBRATION_STATUS_SUCCESS == "success"
CollectStatuses == {"success", "failure"}

\* What the device does during finalization.
FinalizeOutcomes == {"ok", "compute_raises", "leave_raises"}

VARIABLES
    callback_enabled,  \* self.callback_enabled
    app,               \* "running", "closing" (close_app timer pending), "exited"
    calib_window,      \* id of self.calib_window; 0: attribute not set yet
    windows,           \* ids of the calibration windows that exist
    timers,            \* pending run_calibration timers: the window each was registered on
    calib_state,       \* self.calib_state
    calib_pos,         \* self.calib_pos
    calib_r,           \* self.calib_r
    calib_index,       \* self.calib_index
    \* What the latest session has done so far (observation only).
    enter_calls,       \* enter_calibration_mode calls
    collects,          \* statuses collect_data returned in the last run_calibration
    collected_at,      \* target indexes at which data collection was issued
    sound_count,       \* play_sound calls
    close_calls,       \* close_calibration calls
    compute_calls,     \* compute_and_apply calls
    leave_calls,       \* leave_calibration_mode calls
    plots,             \* plot_calibration calls
    errors_shown,      \* messagebox.showerror calls
    finalize_outcome,  \* what the device did in close_calibration; "none" before it
    invalid_raised,    \* the 'Invalid calibration state' exception was raised
    final_calls,       \* the device calls close_calibration made, in order
    phase_log,         \* the <<calib_index, calib_state>> pairs the session went through
    image_saves,       \* calib_image.save calls
    \* The live sample projector.
    eye_var,           \* self.eye_var: the Eyes check box (0 or 1)
    gaze_var,          \* self.gaze_var: the Gaze check box (0 or 1)
    canvas,            \* <<self.canvas_width, self.canvas_height>>; <<>>: attributes not set yet
    gaze,              \* self.gaze: the gaze marker's oval, NoMarker while None
    eye_left,          \* self.eye_left
    eye_right,         \* self.eye_right
    dist_bar,          \* self.dist_bar['value'], in thousandths
    last_sample,       \* the last sample delivered: its feed and its two points; for a
                       \* gaze sample whether the callback got to a checked Gaze box
                       \* (display) and called plot_gaze (plotted), for a position
                       \* sample whether the callback raised
    created,           \* how many create_oval calls made each of the three markers
    \* The eye tracker selection.
    attached,          \* the eye trackers tr.find_all_eyetrackers() returns now
    et_values,         \* self.et_combo['values']: the labels offered
    et_var,            \* self.et_var: the label selected; NoLabel while ''
    et,                \* self.et; NoDevice while None
    subscribed,        \* the devices both feeds have been subscribed on
    select_result,     \* how the last select_eyetracker() ended: "ok" or "raised"
    \* The calibration result plot.
    result,            \* the CalibrationResult handed to plot_calibration
    plot_canvas,       \* the items created on self.calib_plot_canvas; NoPlot before
    plot_image,        \* what was drawn on the in-memory image; NoPlot before
    image_file         \* the drawing in the saved PNG file; NoPlot while there is none

session_vars ==
    <<calib_window, windows, timers, calib_state, calib_pos, calib_r, calib_index,
      enter_calls, collects, collected_at, sound_count, close_calls, compute_calls,
      leave_calls, plots, errors_shown, finalize_outcome, invalid_raised, final_calls,
      phase_log, image_saves>>

projector_vars ==
    <<eye_var, gaze_var, canvas, gaze, eye_left, eye_right, dist_bar, last_sample,
      created>>

\* What the projector shows: the markers on the canvas and the proximity indicator.
display_vars == <<gaze, eye_left, eye_right, dist_bar>>

device_vars == <<attached, et_values, et_var, et, subscribed, select_result>>

renderer_vars == <<result, plot_canvas, plot_image, image_file>>

vars ==
    <<callback_enabled, app, session_vars, projector_vars, device_vars, renderer_vars>>

Abs(x) == IF x < 0 THEN -x ELSE x

\* isclose(a, b, rel_tol=1e-09, abs_tol=0.001): |a-b| <= max(rel_tol*max(|a|,|b|), abs_tol).
\* The relative term stays below 1e-7 for every value of the program.
is_close(a, b) == Abs(a - b) <= ABS_TOL

\* math.copysign(step, d): step with the sign of d.
copysign(step, d) == IF d >= 0 THEN step ELSE -step

\* What one invocation of run_calibration works on: the session fields it reads and
\* writes, and what it did (cue played, collect_data statuses, finalization requested,
\* exception raised, timer re-armed).
Session(state, pos, r, index) ==
    [state |-> state, pos |-> pos, r |-> r, index |-> index,
     sound |-> FALSE, collects |-> <<>>, finished |-> FALSE, invalid |-> FALSE,
     rearm |-> FALSE]

\* MovingTick without copysign: it always adds STEP.
MovingTick_NoSign(s) ==
    LET tgt == calib_targets[s.index + 1]
    IN  IF is_close(s.pos[1], tgt[1]) /\ is_close(s.pos[2], tgt[2])
        THEN [s EXCEPT !.state = "SHRINKING", !.sound = TRUE]
        ELSE LET diff_x == tgt[1] - s.pos[1]
                 diff_y == tgt[2] - s.pos[2]
                 x == IF ~is_close(diff_x, 0) THEN s.pos[1] + STEP ELSE s.pos[1]
                 y == IF ~is_close(diff_y, 0) THEN s.pos[2] + STEP ELSE s.pos[2]
             IN  [s EXCEPT !.pos = <<x, y>>]

\* MovingTick that steps both axes as long as the dot has not arrived on both.
MovingTick_BothAxes(s) ==
    LET tgt == calib_targets[s.index + 1]
    IN  IF is_close(s.pos[1], tgt[1]) /\ is_close(s.pos[2], tgt[2])
        THEN [s EXCEPT !.state = "SHRINKING", !.sound = TRUE]
        ELSE LET diff_x == tgt[1] - s.pos[1]
                 diff_y == tgt[2] - s.pos[2]
             IN  [s EXCEPT !.pos = <<s.pos[1] + copysign(STEP, diff_x),
                                     s.pos[2] + copysign(STEP, diff_y)>>]

\* MovingTick that plays the sound on every tick.
MovingTick_CueEveryTick(s) ==
    LET tgt == calib_targets[s.index + 1]
    IN  IF is_close(s.pos[1], tgt[1]) /\ is_close(s.pos[2], tgt[2])
        THEN [s EXCEPT !.state = "SHRINKING", !.sound = TRUE]
        ELSE LET diff_x == tgt[1] - s.pos[1]
                 diff_y == tgt[2] - s.pos[2]
                 x == IF ~is_close(diff_x, 0)
                      THEN s.pos[1] + copysign(STEP, diff_x) ELSE s.pos[1]
                 y == IF ~is_close(diff_y, 0)
                      THEN s.pos[2] + copysign(STEP, diff_y) ELSE s.pos[2]
             IN  [s EXCEPT !.pos = <<x, y>>, !.sound = TRUE]

\* if self.calib_state == CalibrationState.MOVING: ...
MovingTick(s) ==
    LET tgt == calib_targets[s.index + 1]
    IN  IF is_close(s.pos[1], tgt[1]) /\ is_close(s.pos[2], tgt[2])
        THEN [s EXCEPT !.state = "SHRINKING", !.sound = TRUE]
        ELSE LET diff_x == tgt[1] - s.pos[1]
                 diff_y == tgt[2] - s.pos[2]
                 x == IF ~is_close(diff_x, 0)
                      THEN s.pos[1] + copysign(STEP, diff_x) ELSE s.pos[1]
                 y == IF ~is_close(diff_y, 0)
                      THEN s.pos[2] + copysign(STEP, diff_y) ELSE s.pos[2]
             IN  [s EXCEPT !.pos = <<x, y>>]

\* ShrinkingTick without the retry: collect_data is called once whatever it returns.
ShrinkingTick_NoRetry(s, st1, st2) ==
    IF is_close(Milli * s.r, Milli * calib_r_min)
    THEN [s EXCEPT !.state = "GROWING", !.collects = <<st1>>]
    ELSE [s EXCEPT !.r = @ - STEP_R]

\* ShrinkingTick with the radius decrement outside the else: it also shrinks the dot
\* on the tick that collects.
ShrinkingTick_AlwaysShrinks(s, st1, st2) ==
    IF is_close(Milli * s.r, Milli * calib_r_min)
    THEN [s EXCEPT !.state = "GROWING", !.r = @ - STEP_R,
                   !.collects = IF st1 # CALIBRATION_STATUS_SUCCESS
                                THEN <<st1, st2>> ELSE <<st1>>]
    ELSE [s EXCEPT !.r = @ - STEP_R]

\* ShrinkingTick that collects one step early, with the radius still above r_min.
ShrinkingTick_EarlyCollect(s, st1, st2) ==
    IF is_close(Milli * s.r, Milli * (calib_r_min + STEP_R))
    THEN [s EXCEPT !.state = "GROWING",
                   !.collects = IF st1 # CALIBRATION_STATUS_SUCCESS
                                THEN <<st1, st2>> ELSE <<st1>>]
    ELSE [s EXCEPT !.r = @ - STEP_R]

\* elif self.calib_state == CalibrationState.SHRINKING: ...
\* st1, st2: what the first and the second collect_data would return.
ShrinkingTick(s, st1, st2) ==
    IF is_close(Milli * s.r, Milli * calib_r_min)
    THEN [s EXCEPT !.state = "GROWING",
                   !.collects = IF FAKE_CALIBRATION THEN <<>>
                                ELSE IF st1 # CALIBRATION_STATUS_SUCCESS
                                     THEN <<st1, st2>> ELSE <<st1>>]
    ELSE [s EXCEPT !.r = @ - STEP_R]

\* GrowingTick that starts the next target in SHRINKING, without moving to it.
GrowingTick_SkipMoving(s) ==
    IF is_close(Milli * s.r, Milli * calib_r_max)
    THEN IF s.index = Len(calib_targets) - 1
         THEN [s EXCEPT !.finished = TRUE]
         ELSE [s EXCEPT !.index = @ + 1, !.state = "SHRINKING"]
    ELSE [s EXCEPT !.r = @ + STEP_R]

\* GrowingTick with the last-target test off by one.
GrowingTick_OffByOne(s) ==
    IF is_close(Milli * s.r, Milli * calib_r_max)
    THEN IF s.index = Len(calib_targets)
         THEN [s EXCEPT !.finished = TRUE]
         ELSE [s EXCEPT !.index = @ + 1, !.state = "MOVING"]
    ELSE [s EXCEPT !.r = @ + STEP_R]

\* GrowingTick that never finishes: at r_max on the last target it does nothing.
GrowingTick_NoFinish(s) ==
    IF is_close(Milli * s.r, Milli * calib_r_max)
    THEN IF s.index = Len(calib_targets) - 1
         THEN s
         ELSE [s EXCEPT !.index = @ + 1, !.state = "MOVING"]
    ELSE [s EXCEPT !.r = @ + STEP_R]

\* elif self.calib_state == CalibrationState.GROWING: ...
GrowingTick(s) ==
    IF is_close(Milli * s.r, Milli * calib_r_max)
    THEN IF s.index = Len(calib_targets) - 1
         THEN [s EXCEPT !.finished = TRUE]
         ELSE [s EXCEPT !.index = @ + 1, !.state = "MOVING"]
    ELSE [s EXCEPT !.r = @ + STEP_R]

\* The phase dispatch of run_calibration; any other state raises.
PhaseTick(s, st1, st2) ==
    CASE s.state = "MOVING" -> MovingTick(s)
      [] s.state = "SHRINKING" -> ShrinkingTick(s, st1, st2)
      [] s.state = "GROWING" -> GrowingTick(s)
      [] OTHER -> [s EXCEPT !.invalid = TRUE]

\* run_calibration without the return after close_calibration(): it re-arms the timer
\* on the terminal tick too.
run_calibration_NoReturn(s, st1, st2) ==
    LET t == PhaseTick(s, st1, st2)
    IN  [t EXCEPT !.rearm = ~t.invalid]

\* run_calibration: the phase step, then self.calib_window.after(DELAY, ...) unless
\* the step returned early (finalization) or raised.
run_calibration(s, st1, st2) ==
    LET t == PhaseTick(s, st1, st2)
    IN  [t EXCEPT !.rearm = ~t.finished /\ ~t.invalid]

\* The counters of a session that has just been started by calibrate().
NewCounters ==
    [enter |-> IF FAKE_CALIBRATION THEN 0 ELSE 1, sounds |-> 0, collected_at |-> <<>>,
     close |-> 0, compute |-> 0, leave |-> 0, plots |-> 0, errors |-> 0,
     outcome |-> "none", destroyed |-> FALSE, calls |-> <<>>,
     phases |-> << <<0, "MOVING">> >>, saves |-> 0]

Counters ==
    [enter |-> enter_calls, sounds |-> sound_count, collected_at |-> collected_at,
     close |-> close_calls, compute |-> compute_calls, leave |-> leave_calls,
     plots |-> plots, errors |-> errors_shown, outcome |-> finalize_outcome,
     destroyed |-> FALSE, calls |-> final_calls, phases |-> phase_log,
     saves |-> image_saves]

\* close_calibration without the try block: a device error propagates, no error box
\* is shown and the window is not destroyed.
close_calibration_NoTry(c, fin) ==
    LET d == [c EXCEPT !.close = @ + 1]
    IN  CASE fin = "compute_raises" ->
               [d EXCEPT !.outcome = fin, !.compute = @ + 1,
                         !.calls = Append(@, "compute_and_apply")]
          [] fin = "leave_raises" ->
               [d EXCEPT !.outcome = fin, !.compute = @ + 1, !.leave = @ + 1,
                         !.calls = @ \o <<"compute_and_apply", "leave_calibration_mode">>]
          [] OTHER ->
               [d EXCEPT !.outcome = fin, !.compute = @ + 1, !.leave = @ + 1,
                         !.calls = @ \o <<"compute_and_apply", "leave_calibration_mode">>,
                         !.plots = @ + 1, !.saves = @ + 1, !.destroyed = TRUE]

\* close_calibration leaving calibration mode first and computing afterwards.
close_calibration_LeaveFirst(c, fin) ==
    LET d == [c EXCEPT !.close = @ + 1, !.destroyed = TRUE]
    IN  CASE fin = "leave_raises" ->
               [d EXCEPT !.outcome = fin, !.leave = @ + 1, !.errors = @ + 1,
                         !.calls = Append(@, "leave_calibration_mode")]
          [] fin = "compute_raises" ->
               [d EXCEPT !.outcome = fin, !.compute = @ + 1, !.leave = @ + 1,
                         !.errors = @ + 1,
                         !.calls = @ \o <<"leave_calibration_mode", "compute_and_apply">>]
          [] OTHER ->
               [d EXCEPT !.outcome = fin, !.compute = @ + 1, !.leave = @ + 1,
                         !.calls = @ \o <<"leave_calibration_mode", "compute_and_apply">>,
                         !.plots = @ + 1, !.saves = @ + 1]

\* close_calibration with plot_calibration after the try block: the plot is made
\* whether or not the device calls raised.
close_calibration_PlotAlways(c, fin) ==
    LET d == [c EXCEPT !.close = @ + 1, !.destroyed = TRUE, !.plots = @ + 1,
                       !.saves = @ + 1]
    IN  CASE fin = "compute_raises" ->
               [d EXCEPT !.outcome = fin, !.compute = @ + 1, !.errors = @ + 1,
                         !.calls = Append(@, "compute_and_apply")]
          [] fin = "leave_raises" ->
               [d EXCEPT !.outcome = fin, !.compute = @ + 1, !.leave = @ + 1,
                         !.errors = @ + 1,
                         !.calls = @ \o <<"compute_and_apply", "leave_calibration_mode">>]
          [] OTHER ->
               [d EXCEPT !.outcome = fin, !.compute = @ + 1, !.leave = @ + 1,
                         !.calls = @ \o <<"compute_and_apply", "leave_calibration_mode">>]

\* close_calibration: compute_and_apply, leave_calibration_mode and plot_calibration
\* in one try block, any exception shown in an error box; then the window is
\* destroyed.  fin: what the device does.  plot_calibration ends by saving the image
\* file; what it draws is PlotCalibration below.
close_calibration(c, fin) ==
    LET d == [c EXCEPT !.close = @ + 1, !.destroyed = TRUE]
    IN  IF FAKE_CALIBRATION THEN d
        ELSE CASE fin = "compute_raises" ->
                    [d EXCEPT !.outcome = fin, !.compute = @ + 1, !.errors = @ + 1,
                              !.calls = Append(@, "compute_and_apply")]
               [] fin = "leave_raises" ->
                    [d EXCEPT !.outcome = fin, !.compute = @ + 1, !.leave = @ + 1,
                              !.errors = @ + 1,
                              !.calls = @ \o <<"compute_and_apply",
                                               "leave_calibration_mode">>]
               [] OTHER ->
                    [d EXCEPT !.outcome = fin, !.compute = @ + 1, !.leave = @ + 1,
                              !.calls = @ \o <<"compute_and_apply",
                                               "leave_calibration_mode">>,
                              !.plots = @ + 1, !.saves = @ + 1]

\* The effect of one run_calibration invocation on the program: s is the session it
\* starts from, w the current calibration window, ws the existing windows, tms the
\* timers still pending, c the counters so far.
Run(s, w, ws, tms, c, st1, st2, fin) ==
    LET res == run_calibration(s, st1, st2)
        c1 == [c EXCEPT !.sounds = IF res.sound THEN @ + 1 ELSE @,
                        !.collected_at = IF res.collects # <<>>
                                         THEN Append(@, res.index) ELSE @,
                        !.phases = IF <<res.index, res.state>> # <<s.index, s.state>>
                                   THEN Append(@, <<res.index, res.state>>) ELSE @]
        c2 == IF res.finished THEN close_calibration(c1, fin) ELSE c1
        ws2 == IF c2.destroyed THEN ws \ {w} ELSE ws
        tm2 == IF c2.destroyed THEN SelectSeq(tms, LAMBDA t : t # w) ELSE tms
    IN  /\ calib_state' = res.state
        /\ calib_pos' = res.pos
        /\ calib_r' = res.r
        /\ calib_index' = res.index
        /\ collects' = res.collects
        /\ invalid_raised' = (invalid_raised \/ res.invalid)
        /\ calib_window' = w
        /\ windows' = ws2
        /\ timers' = IF res.rearm THEN Append(tm2, w) ELSE tm2
        /\ enter_calls' = c2.enter
        /\ sound_count' = c2.sounds
        /\ collected_at' = c2.collected_at
        /\ close_calls' = c2.close
        /\ compute_calls' = c2.compute
        /\ leave_calls' = c2.leave
        /\ plots' = c2.plots
        /\ errors_shown' = c2.errors
        /\ finalize_outcome' = c2.outcome
        /\ final_calls' = c2.calls
        /\ phase_log' = c2.phases
        /\ image_saves' = c2.saves

\* A float is <<v>> for the number v and <<>> for not-a-number.
NaN == <<>>
Num(v) == <<v>>
isnan(a) == a = NaN
FAdd(a, b) == IF isnan(a) \/ isnan(b) THEN NaN ELSE Num(a[1] + b[1])
FSub(a, b) == IF isnan(a) \/ isnan(b) THEN NaN ELSE Num(a[1] - b[1])
\* k * a for an integer k
FTimes(k, a) == IF isnan(a) THEN NaN ELSE Num(k * a[1])
\* a / 2
FHalf(a) == IF isnan(a) THEN NaN ELSE Num(a[1] \div 2)

\* self.gaze = None, self.eye_left = None, self.eye_right = None
NoMarker == <<>>
\* R = 10 in plot_gaze and plot_eyes
MarkerRadius == 10
\* self.dist_bar['value'] = 50
InitialDistBar == 50

\* The oval a marker is drawn as, around centre (X, Y) given in thousandths of a pixel.
Oval(X, Y) ==
    LET R == Num(MarkerRadius * Milli)
    IN  <<FSub(X, R), FSub(Y, R), FAdd(X, R), FAdd(Y, R)>>

HasNaN(oval) == \E i \in 1..Len(oval) : isnan(oval[i])

\* NeedsCreate with an item created on every plot.
NeedsCreate_Always(marker) == TRUE

\* 'if self.gaze: coords(...) else: self.gaze = create_oval(...)', and the same for the
\* eye markers: the marker attribute is None, so the plot creates the canvas item
\* (an item id is a positive integer, hence true).
NeedsCreate(marker) == marker = NoMarker

\* The create_oval calls counted after a plot of the marker m that found it as old.
CreatedAfter(cr, m, old) == IF NeedsCreate(old) THEN [cr EXCEPT ![m] = @ + 1] ELSE cr

\* plot_gaze(x, y): the oval the gaze marker is created with or moved to.
plot_gaze(x, y, cv) == Oval(FTimes(cv[1], x), FTimes(cv[2], y))

\* The gaze and position samples the device delivers: a point is all numbers or all
\* not-a-number.
NaNPoint == <<NaN, NaN>>
NaNPosition == <<NaN, NaN, NaN>>
LeftGazePoints == {NaNPoint, <<Num(200), Num(200)>>}
RightGazePoints == {NaNPoint, <<Num(400), Num(600)>>, <<Num(400), Num(400)>>}
LeftPositions == {NaNPosition, <<Num(300), Num(400), Num(400)>>}
RightPositions == {NaNPosition, <<Num(700), Num(500), Num(600)>>}
\* What winfo_width() and winfo_height() of the canvas may return.
CanvasSizes == {<<500, 500>>, <<800, 600>>}

\* GazeAfter with the sum of the two gaze points plotted, not their average.
GazeAfter_NoHalf(gaze_left, gaze_right, cv, old) ==
    IF gaze_var = 1
    THEN IF isnan(gaze_left[1]) /\ isnan(gaze_right[1]) THEN old
         ELSE IF isnan(gaze_left[1]) THEN plot_gaze(gaze_right[1], gaze_right[2], cv)
         ELSE IF isnan(gaze_right[1]) THEN plot_gaze(gaze_left[1], gaze_left[2], cv)
         ELSE plot_gaze(FAdd(gaze_left[1], gaze_right[1]),
                        FAdd(gaze_left[2], gaze_right[2]), cv)
    ELSE old

\* The body of gaze_data_callback after the enable check and the canvas size update:
\* the new value of self.gaze.
GazeAfter(gaze_left, gaze_right, cv, old) ==
    IF gaze_var = 1
    THEN IF isnan(gaze_left[1]) /\ isnan(gaze_right[1]) THEN old
         ELSE IF isnan(gaze_left[1]) THEN plot_gaze(gaze_right[1], gaze_right[2], cv)
         ELSE IF isnan(gaze_right[1]) THEN plot_gaze(gaze_left[1], gaze_left[2], cv)
         ELSE plot_gaze(FHalf(FAdd(gaze_left[1], gaze_right[1])),
                        FHalf(FAdd(gaze_left[2], gaze_right[2])), cv)
    ELSE old

\* Whether that body called plot_gaze.
GazePlotted(gaze_left, gaze_right) ==
    gaze_var = 1 /\ ~(isnan(gaze_left[1]) /\ isnan(gaze_right[1]))

\* gaze_data_callback with plot_gaze keeping its radius R in self.calib_r, the
\* attribute the calibration session keeps the dot radius in.
gaze_data_callback_SharedRadius ==
    /\ app # "exited"
    /\ \E gaze_left \in LeftGazePoints, gaze_right \in RightGazePoints,
          size \in CanvasSizes :
          IF ~callback_enabled
          THEN /\ last_sample' = [feed |-> "gaze", left |-> gaze_left,
                                  right |-> gaze_right, display |-> FALSE,
                                  plotted |-> FALSE]
               /\ UNCHANGED <<canvas, gaze, created, calib_r>>
          ELSE /\ canvas' = size
               /\ gaze' = GazeAfter(gaze_left, gaze_right, size, gaze)
               /\ created' = IF GazePlotted(gaze_left, gaze_right)
                             THEN CreatedAfter(created, "gaze", gaze)
                             ELSE created
               /\ calib_r' = IF GazePlotted(gaze_left, gaze_right)
                             THEN MarkerRadius ELSE calib_r
               /\ last_sample' = [feed |-> "gaze", left |-> gaze_left,
                                  right |-> gaze_right, display |-> gaze_var = 1,
                                  plotted |-> GazePlotted(gaze_left, gaze_right)]
    /\ UNCHANGED <<callback_enabled, app, device_vars, renderer_vars,
                   eye_var, gaze_var, eye_left, eye_right, dist_bar>>
    /\ UNCHANGED <<calib_window, windows, timers, calib_state, calib_pos, calib_index,
                   enter_calls, collects, collected_at, sound_count, close_calls,
                   compute_calls, leave_calls, plots, errors_shown, finalize_outcome,
                   invalid_raised, final_calls, phase_log, image_saves>>

\* The device pushes a gaze sample.
gaze_data_callback ==
    /\ app # "exited"
    /\ \E gaze_left \in LeftGazePoints, gaze_right \in RightGazePoints,
          size \in CanvasSizes :
          IF ~callback_enabled
          THEN /\ last_sample' = [feed |-> "gaze", left |-> gaze_left,
                                  right |-> gaze_right, display |-> FALSE,
                                  plotted |-> FALSE]
               /\ UNCHANGED <<canvas, gaze, created>>
          ELSE /\ canvas' = size
               /\ gaze' = GazeAfter(gaze_left, gaze_right, size, gaze)
               /\ created' = IF GazePlotted(gaze_left, gaze_right)
                             THEN CreatedAfter(created, "gaze", gaze)
                             ELSE created
               /\ last_sample' = [feed |-> "gaze", left |-> gaze_left,
                                  right |-> gaze_right, display |-> gaze_var = 1,
                                  plotted |-> GazePlotted(gaze_left, gaze_right)]
    /\ UNCHANGED <<callback_enabled, app, session_vars, device_vars, renderer_vars,
                   eye_var, gaze_var, eye_left, eye_right, dist_bar>>

\* plot_eyes(x1, y1, x2, y2): the two eye markers afterwards and whether it raised.
\* It reads self.canvas_width, which only gaze_data_callback sets.  tk_accepts_nan:
\* whether the canvas takes a not-a-number coordinate or raises on it.
plot_eyes(x1, y1, x2, y2, tk_accepts_nan) ==
    IF canvas = <<>>
    THEN [eye_left |-> eye_left, eye_right |-> eye_right, raised |-> TRUE,
          created |-> created]
    ELSE LET o1 == Oval(FTimes(canvas[1], x1), FTimes(canvas[2], y1))
             o2 == Oval(FTimes(canvas[1], x2), FTimes(canvas[2], y2))
             c1 == CreatedAfter(created, "eye_left", eye_left)
             c2 == CreatedAfter(c1, "eye_right", eye_right)
         IN  IF HasNaN(o1) /\ ~tk_accepts_nan
             THEN [eye_left |-> eye_left, eye_right |-> eye_right, raised |-> TRUE,
                   created |-> created]
             ELSE IF HasNaN(o2) /\ ~tk_accepts_nan
             THEN [eye_left |-> o1, eye_right |-> eye_right, raised |-> TRUE,
                   created |-> c1]
             ELSE [eye_left |-> o1, eye_right |-> o2, raised |-> FALSE,
                   created |-> c2]

\* The proximity indicator user_position_guide_callback sets from the two z values.
DistBarValue(left_eye_z, right_eye_z) ==
    IF isnan(left_eye_z) /\ isnan(right_eye_z) THEN Num(0)
    ELSE IF isnan(left_eye_z) THEN FTimes(100, right_eye_z)
    ELSE IF isnan(right_eye_z) THEN FTimes(100, left_eye_z)
    ELSE FTimes(50, FAdd(left_eye_z, right_eye_z))

\* The device pushes a position sample.
user_position_guide_callback ==
    /\ app # "exited"
    /\ \E left \in LeftPositions, right \in RightPositions, tk_accepts_nan \in BOOLEAN :
          LET eyes == IF eye_var = 1
                      THEN plot_eyes(FSub(Num(Milli), left[1]), left[2],
                                     FSub(Num(Milli), right[1]), right[2],
                                     tk_accepts_nan)
                      ELSE [eye_left |-> eye_left, eye_right |-> eye_right,
                            raised |-> FALSE, created |-> created]
          IN  /\ eye_left' = eyes.eye_left
              /\ eye_right' = eyes.eye_right
              /\ created' = eyes.created
              /\ dist_bar' = IF eyes.raised THEN dist_bar
                             ELSE DistBarValue(left[3], right[3])[1]
              /\ last_sample' = [feed |-> "position", left |-> left, right |-> right,
                                  raised |-> eyes.raised]
    /\ UNCHANGED <<callback_enabled, app, session_vars, device_vars, renderer_vars,
                   eye_var, gaze_var, canvas, gaze>>

\* The Eyes check box is clicked.
toggle_eyes ==
    /\ app # "exited"
    /\ eye_var' = 1 - eye_var
    /\ UNCHANGED <<callback_enabled, app, session_vars, device_vars, renderer_vars,
                   gaze_var, canvas, gaze, eye_left, eye_right, dist_bar, last_sample,
                   created>>

\* The Gaze check box is clicked.
toggle_gaze ==
    /\ app # "exited"
    /\ gaze_var' = 1 - gaze_var
    /\ UNCHANGED <<callback_enabled, app, session_vars, device_vars, renderer_vars,
                   eye_var, canvas, gaze, eye_left, eye_right, dist_bar, last_sample,
                   created>>

\* The eye trackers that may be attached: model and serial number.  A model name is
\* kept as its pieces between underscores.
Devices ==
    {[model |-> <<"Tobii Pro Nano">>, serial_number |-> "TPNA1-030108"],
     [model |-> <<"Tobii Pro Spectrum">>, serial_number |-> "TPSP1-010202"],
     [model |-> <<"IS4", "Large", "Peripheral">>, serial_number |-> "IS404-100107"]}

\* self.et = None
NoDevice == [model |-> <<>>, serial_number |-> ""]
\* self.et_var = tk.StringVar(): ''
NoLabel == <<>>

\* '_'.join([et.model, et.serial_number]), kept as its pieces between underscores.
Label(d) == d.model \o <<d.serial_number>>

\* label.split('_', 1)[1]: what follows the first underscore, as pieces.
SerialOfLabel(label) == Tail(label)

\* select_eyetracker that looks the serial number up among all known devices, not
\* among those enumerated now.
select_eyetracker_NoEnumeration(label, eyetrackers, cur_et, subs) ==
    LET serial_number == SerialOfLabel(label)
        selected_et == {d \in Devices : <<d.serial_number>> = serial_number}
    IN  IF selected_et # {}
        THEN LET first == CHOOSE d \in selected_et : TRUE
             IN  [et |-> first, subscribed |-> subs \cup {first}, raised |-> FALSE]
        ELSE [et |-> cur_et, subscribed |-> subs, raised |-> TRUE]

\* select_eyetracker: the device with the selected label's serial number among the
\* eye trackers enumerated now becomes self.et and both feeds are subscribed on it;
\* with no such device it raises.  eyetrackers: what tr.find_all_eyetrackers() returns.
select_eyetracker(label, eyetrackers, cur_et, subs) ==
    LET serial_number == SerialOfLabel(label)
        selected_et == {d \in eyetrackers : <<d.serial_number>> = serial_number}
    IN  IF selected_et # {}
        THEN LET first == CHOOSE d \in selected_et : TRUE
             IN  [et |-> first, subscribed |-> subs \cup {first}, raised |-> FALSE]
        ELSE [et |-> cur_et, subscribed |-> subs, raised |-> TRUE]

\* An eye tracker is plugged in.
plug ==
    /\ app # "exited"
    /\ \E d \in Devices \ attached : attached' = attached \cup {d}
    /\ UNCHANGED <<callback_enabled, app, session_vars, projector_vars, renderer_vars,
                   et_values, et_var, et, subscribed, select_result>>

\* An eye tracker is unplugged.
unplug ==
    /\ app # "exited"
    /\ \E d \in attached : attached' = attached \ {d}
    /\ UNCHANGED <<callback_enabled, app, session_vars, projector_vars, renderer_vars,
                   et_values, et_var, et, subscribed, select_result>>

\* The Refresh button: the combobox is filled with the labels of the eye trackers
\* found; a single one is selected at once.
find_eyetrackers ==
    /\ app # "exited"
    /\ LET et_labels == {Label(d) : d \in attached}
       IN  /\ et_values' = et_labels
           /\ IF Cardinality(et_labels) = 1
              THEN LET only == CHOOSE l \in et_labels : TRUE
                       sel == select_eyetracker(only, attached, et, subscribed)
                   IN  /\ et_var' = only
                       /\ et' = sel.et
                       /\ subscribed' = sel.subscribed
                       /\ select_result' = IF sel.raised THEN "raised" ELSE "ok"
              ELSE UNCHANGED <<et_var, et, subscribed, select_result>>
    /\ UNCHANGED <<callback_enabled, app, session_vars, projector_vars, renderer_vars,
                   attached>>

\* <<ComboboxSelected>>: the user picks one of the labels offered.
combobox_selected ==
    /\ app # "exited"
    /\ \E label \in et_values :
          LET sel == select_eyetracker(label, attached, et, subscribed)
          IN  /\ et_var' = label
              /\ et' = sel.et
              /\ subscribed' = sel.subscribed
              /\ select_result' = IF sel.raised THEN "raised" ELSE "ok"
    /\ UNCHANGED <<callback_enabled, app, session_vars, projector_vars, renderer_vars,
                   attached, et_values>>

\* The calibration results plot_calibration is given: up to MaxPoints calibration
\* points, with up to MaxSamples samples in all.
MaxPoints == 2
MaxSamples == 2

\* tr.VALIDITY_VALID_AND_USED and the other two values of a sample eye's validity.
VALIDITY_VALID_AND_USED == "valid_and_used"
Validities == {"invalid_and_not_used", "valid_but_not_used", VALIDITY_VALID_AND_USED}

\* What a calibration sample holds for one eye: an eye not seen has no position.
EyeData(position) ==
    {[validity |-> v,
      position_on_display_area |->
          IF v = "invalid_and_not_used" THEN NaNPoint ELSE position] :
       v \in Validities}

CalibrationSamples ==
    [left_eye : EyeData(<<Num(120), Num(210)>>),
     right_eye : EyeData(<<Num(140), Num(190)>>)]

\* The ways to give k calibration points t samples or fewer in all.
RECURSIVE SampleLists(_, _)
SampleLists(k, t) ==
    IF k = 0 THEN {<<>>}
    ELSE UNION {{<<samples>> \o rest : samples \in [1..n -> CalibrationSamples],
                                       rest \in SampleLists(k - 1, t - n)} :
                  n \in 0..t}

\* Calibration point number i is the i-th target the session collected data at.
CalibrationPoints(k) ==
    {[i \in 1..k |->
        [position_on_display_area |->
             <<Num(calib_targets[i][1]), Num(calib_targets[i][2])>>,
         calibration_samples |-> f[i]]] : f \in SampleLists(k, MaxSamples)}

Results ==
    {[status |-> "success", calibration_points |-> pts] :
       pts \in UNION {CalibrationPoints(k) : k \in 0..MaxPoints}}

NoResult == [status |-> "none", calibration_points |-> <<>>]

\* R = 15 in plot_point
PlotRadius == 15
\* Image.new('RGB', (640, 480), 'white')
ImageSize == <<640, 480>>
\* What winfo_width() and winfo_height() of the plot canvas may return after
\* geometry('640x480') and update().
PlotCanvasSizes == {<<640, 480>>, <<800, 600>>}

\* No plot window, no image yet.
NoPlot == [width |-> 0, height |-> 0, items |-> <<>>]

\* plot_point(x, y): an oval on the canvas and a circle on the image.
plot_point(x, y, size) ==
    LET R == Num(PlotRadius * Milli)
        X == FTimes(size[1], x)
        Y == FTimes(size[2], y)
    IN  [canvas |-> <<[item |-> "oval",
                       coords |-> <<FSub(X, R), FSub(Y, R), FAdd(X, R), FAdd(Y, R)>>,
                       outline |-> "black"]>>,
         image |-> <<[item |-> "circle", xy |-> <<X, Y>>, radius |-> R,
                      fill |-> "white", outline |-> "black"]>>]

line_colors == [left_eye |-> "red", right_eye |-> "green"]

\* What plot_calibration_sample draws for one eye of a sample.
PlotEye_AnyValid(position, sample, eye, size) ==
    LET X0 == FTimes(size[1], position[1])
        Y0 == FTimes(size[2], position[2])
        eyedata == sample[eye]
        X1 == FTimes(size[1], eyedata.position_on_display_area[1])
        Y1 == FTimes(size[2], eyedata.position_on_display_area[2])
        line == [item |-> "line", coords |-> <<X0, Y0, X1, Y1>>,
                 fill |-> line_colors[eye]]
    IN  IF eyedata.validity # "invalid_and_not_used"
        THEN [canvas |-> <<line>>, image |-> <<line>>]
        ELSE [canvas |-> <<>>, image |-> <<>>]

\* The body of the loop of plot_calibration_sample: a line from the calibration point
\* to the eye's position, on the canvas and on the image, if the eye's data was used.
PlotEye(position, sample, eye, size) ==
    LET X0 == FTimes(size[1], position[1])
        Y0 == FTimes(size[2], position[2])
        eyedata == sample[eye]
        X1 == FTimes(size[1], eyedata.position_on_display_area[1])
        Y1 == FTimes(size[2], eyedata.position_on_display_area[2])
        line == [item |-> "line", coords |-> <<X0, Y0, X1, Y1>>,
                 fill |-> line_colors[eye]]
    IN  IF eyedata.validity = VALIDITY_VALID_AND_USED
        THEN [canvas |-> <<line>>, image |-> <<line>>]
        ELSE [canvas |-> <<>>, image |-> <<>>]

\* plot_calibration_sample(position, sample): for eye in ('left_eye', 'right_eye').
plot_calibration_sample(position, sample, size) ==
    LET l == PlotEye(position, sample, "left_eye", size)
        r == PlotEye(position, sample, "right_eye", size)
    IN  [canvas |-> l.canvas \o r.canvas, image |-> l.image \o r.image]

\* for sample in samples: plot_calibration_sample(position, sample)
RECURSIVE PlotSamples(_, _, _)
PlotSamples(position, samples, size) ==
    IF samples = <<>> THEN [canvas |-> <<>>, image |-> <<>>]
    ELSE LET first == plot_calibration_sample(position, Head(samples), size)
             rest == PlotSamples(position, Tail(samples), size)
         IN  [canvas |-> first.canvas \o rest.canvas,
              image |-> first.image \o rest.image]

\* for point in calibration_points: plot_point(*position), then its samples.
RECURSIVE PlotPoints(_, _)
PlotPoints(points, size) ==
    IF points = <<>> THEN [canvas |-> <<>>, image |-> <<>>]
    ELSE LET position == Head(points).position_on_display_area
             dot == plot_point(position[1], position[2], size)
             lines == PlotSamples(position, Head(points).calibration_samples, size)
             rest == PlotPoints(Tail(points), size)
         IN  [canvas |-> dot.canvas \o lines.canvas \o rest.canvas,
              image |-> dot.image \o lines.image \o rest.image]

\* plot_calibration(result): the plot window with its canvas, the in-memory image
\* drawn with the same coordinates, and the image saved to a file.
plot_calibration ==
    /\ app # "exited"
    /\ plot_canvas = NoPlot
    /\ \E size \in PlotCanvasSizes :
          LET drawn == PlotPoints(result.calibration_points, size)
              img == [width |-> ImageSize[1], height |-> ImageSize[2],
                      items |-> drawn.image]
          IN  /\ plot_canvas' =
                    [width |-> size[1], height |-> size[2], items |-> drawn.canvas]
              /\ plot_image' = img
              /\ image_file' = img
    /\ UNCHANGED <<callback_enabled, app, session_vars, projector_vars, device_vars,
                   result>>

\* The application after MainApp.__init__, whatever result a plot may be made of.
InitApp ==
    /\ callback_enabled = TRUE
    /\ app = "running"
    /\ calib_window = 0
    /\ windows = {}
    /\ timers = <<>>
    /\ calib_state = "unset"
    /\ calib_pos = <<0, 0>>
    /\ calib_r = 0
    /\ calib_index = 0
    /\ enter_calls = 0
    /\ collects = <<>>
    /\ collected_at = <<>>
    /\ sound_count = 0
    /\ close_calls = 0
    /\ compute_calls = 0
    /\ leave_calls = 0
    /\ plots = 0
    /\ errors_shown = 0
    /\ finalize_outcome = "none"
    /\ invalid_raised = FALSE
    /\ final_calls = <<>>
    /\ phase_log = <<>>
    /\ image_saves = 0
    /\ eye_var = 0
    /\ gaze_var = 0
    /\ canvas = <<>>
    /\ gaze = NoMarker
    /\ eye_left = NoMarker
    /\ eye_right = NoMarker
    /\ dist_bar = InitialDistBar * Milli
    /\ last_sample = [feed |-> "none"]
    /\ created = [gaze |-> 0, eye_left |-> 0, eye_right |-> 0]
    /\ attached = {CHOOSE d \in Devices : d.model = <<"Tobii Pro Nano">>}
    /\ et_values = {Label(d) : d \in attached}
    /\ et_var = CHOOSE l \in et_values : TRUE
    /\ et = CHOOSE d \in attached : TRUE
    /\ subscribed = attached
    /\ select_result = "ok"
    /\ plot_canvas = NoPlot
    /\ plot_image = NoPlot
    /\ image_file = NoPlot

Init == InitApp /\ result = NoResult

\* The Calibrate button: calibrate() opens a new calibration window, resets the
\* session, enters calibration mode and calls run_calibration() once itself.
calibrate ==
    /\ app # "exited"
    /\ calib_window < MaxCalibrations
    /\ \E st1 \in CollectStatuses, st2 \in CollectStatuses, fin \in FinalizeOutcomes :
          Run(Session("MOVING", InitialPos, InitialRadius, 0),
              calib_window + 1, windows \cup {calib_window + 1}, timers,
              NewCounters, st1, st2, fin)
    /\ UNCHANGED <<callback_enabled, app, projector_vars, device_vars, renderer_vars>>

\* The oldest run_calibration timer fires.
Tick ==
    /\ app # "exited"
    /\ timers # <<>>
    /\ Head(timers) \in windows
    /\ \E st1 \in CollectStatuses, st2 \in CollectStatuses, fin \in FinalizeOutcomes :
          Run(Session(calib_state, calib_pos, calib_r, calib_index),
              calib_window, windows, Tail(timers), Counters, st1, st2, fin)
    /\ UNCHANGED <<callback_enabled, app, projector_vars, device_vars, renderer_vars>>

\* WM_DELETE_WINDOW: clear the callback flag and close the application 250 ms later.
prepare_to_close ==
    /\ app # "exited"
    /\ callback_enabled' = FALSE
    /\ app' = "closing"
    /\ UNCHANGED <<session_vars, projector_vars, device_vars, renderer_vars>>

\* close_app: unsubscribe both feeds of self.et, if there is one, and sys.exit().
close_app ==
    /\ app = "closing"
    /\ app' = "exited"
    /\ subscribed' = subscribed \ {et}
    /\ UNCHANGED <<callback_enabled, session_vars, projector_vars, renderer_vars,
                   attached, et_values, et_var, et, select_result>>

\* The calibration session and the shutdown sequence.
Next == calibrate \/ Tick \/ prepare_to_close \/ close_app

Spec == Init /\ [][Next]_vars

\* The live sample projector and the shutdown sequence.
ProjectorNext ==
    \/ gaze_data_callback
    \/ user_position_guide_callback
    \/ toggle_eyes
    \/ toggle_gaze
    \/ prepare_to_close
    \/ close_app

SpecProjector == Init /\ [][ProjectorNext]_vars

\* The eye tracker selection and the shutdown sequence.
DeviceNext ==
    \/ plug
    \/ unplug
    \/ find_eyetrackers
    \/ combobox_selected
    \/ prepare_to_close
    \/ close_app

SpecDevices == Init /\ [][DeviceNext]_vars

\* plot_calibration applied to any of the results.
InitRenderer == InitApp /\ result \in Results

RendererNext == plot_calibration

SpecRenderer == InitRenderer /\ [][RendererNext]_vars

\* The session with its timers firing: a timer registered with after() fires as long
\* as the event loop runs.
FairSpec == Spec /\ WF_vars(Tick)

LastIndex == Len(calib_targets) - 1

\* A calibration window exists and is the current one: the session is running.
SessionActive == calib_window # 0 /\ calib_window \in windows

\* For how many of a session's last ticks the samples of the two feeds are delivered.
MaxFeedTicks == 2

\* The dot is growing on the last target and is within MaxFeedTicks ticks of the end
\* of the session.
OnLastTarget ==
    /\ SessionActive
    /\ calib_index = LastIndex
    /\ calib_state = "GROWING"
    /\ calib_r > calib_r_max - MaxFeedTicks * STEP_R

\* The session and the two feeds together.  The Eyes and Gaze boxes are set before
\* the session, Calibrate is requested once, and the samples arrive during the last
\* ticks of the session.
InterleavedNext ==
    \/ calib_window = 0 /\ toggle_eyes
    \/ calib_window = 0 /\ toggle_gaze
    \/ calib_window = 0 /\ calibrate
    \/ Tick
    \/ OnLastTarget /\ gaze_data_callback
    \/ OnLastTarget /\ user_position_guide_callback

SpecInterleaved == Init /\ [][InterleavedNext]_vars

(***************************************************************************)
(* The properties checked.                                                 *)
(***************************************************************************)

Phases == {"MOVING", "SHRINKING", "GROWING"}
\* close_calibration has destroyed the current calibration window.
SessionClosed == calib_window # 0 /\ calib_window \notin windows
\* The session is over: closed, or gone with the application.
SessionEnded == SessionClosed \/ app = "exited"

\* A step of a run_calibration timer (calibrate() opens a new window; the shutdown
\* steps leave the session alone).
TickStep == calib_window' = calib_window /\ session_vars' # session_vars
\* A step of calibrate().
CalibrateStep == calib_window' # calib_window

\* The session is in GROWING at r_max on the last target.
AtFinalGrow ==
    /\ SessionActive
    /\ calib_state = "GROWING"
    /\ is_close(Milli * calib_r, Milli * calib_r_max)
    /\ calib_index = LastIndex

\* C1: if enter_calibration_mode was invoked for a session, leave_calibration_mode
\* has been invoked by the time the session is over, on every exit path
\* (compute_and_apply raising, the application closed while the trajectory runs).
C1_LeaveOnEveryExit ==
    (SessionEnded /\ enter_calls > 0) => leave_calls > 0

\* C2: a GROWING tick at r_max on the last target index makes the session terminal:
\* it leaves no timer pending, close_calibration has run exactly once, and from then
\* on the session does not change (no run_calibration runs) until calibrate() starts
\* another one.
C2_TerminalOnce ==
    /\ [](SessionClosed => timers = <<>> /\ close_calls = 1)
    /\ [](SessionActive => close_calls = 0)
    /\ [][AtFinalGrow /\ TickStep =>
            SessionClosed' /\ timers' = <<>> /\ close_calls' = 1]_vars
    /\ [][SessionClosed /\ ~CalibrateStep => UNCHANGED session_vars]_vars

C2_Witness ==
    /\ SessionClosed
    /\ calib_state = "GROWING"
    /\ calib_index = LastIndex
    /\ close_calls = 1
    /\ timers = <<>>

\* C3: the tick that finds the radius at r_min calls collect_data once when the first
\* call returns success and twice when it does not, never a third time and whatever
\* the second call returns; it shows no error and ends in GROWING; and collection is
\* issued once for each target.
C3_CollectOnceOrTwice ==
    /\ [](collects # <<>> =>
            /\ calib_state = "GROWING"
            /\ Len(collects) \in {1, 2}
            /\ (collects[1] = CALIBRATION_STATUS_SUCCESS => Len(collects) = 1)
            /\ (collects[1] # CALIBRATION_STATUS_SUCCESS => Len(collects) = 2)
            /\ errors_shown = 0)
    /\ [](calib_window # 0 =>
            /\ \A i \in 1..Len(collected_at) : collected_at[i] = i - 1
            /\ Len(collected_at) =
                 IF calib_state = "GROWING" THEN calib_index + 1 ELSE calib_index)
    /\ [][(TickStep /\ calib_state = "SHRINKING"
             /\ is_close(Milli * calib_r, Milli * calib_r_min)) =>
            /\ collects' # <<>>
            /\ calib_state' = "GROWING"
            /\ calib_r' = calib_r /\ calib_pos' = calib_pos
            /\ calib_index' = calib_index]_vars
    /\ [][(TickStep /\ ~(calib_state = "SHRINKING"
             /\ is_close(Milli * calib_r, Milli * calib_r_min))) =>
            collects' = <<>>]_vars

C3_Witness ==
    /\ collects = <<"failure", "failure">>
    /\ calib_state = "GROWING"
    /\ calib_index = 2

\* C4: the phase only changes MOVING -> SHRINKING, SHRINKING -> GROWING and
\* GROWING -> MOVING (with current_index incremented); a session becomes terminal
\* only from GROWING; a running session is in one of the three phases and the
\* 'Invalid calibration state' branch is never taken.
C4_NoPhaseSkipped ==
    /\ [](SessionActive => calib_state \in Phases)
    /\ [](~invalid_raised)
    /\ [][~CalibrateStep =>
            \/ calib_state' = calib_state /\ calib_index' = calib_index
            \/ /\ calib_state = "MOVING" /\ calib_state' = "SHRINKING"
               /\ calib_index' = calib_index
            \/ /\ calib_state = "SHRINKING" /\ calib_state' = "GROWING"
               /\ calib_index' = calib_index
            \/ /\ calib_state = "GROWING" /\ calib_state' = "MOVING"
               /\ calib_index' = calib_index + 1]_vars
    /\ [][SessionActive /\ SessionClosed' => calib_state = "GROWING"]_vars
    /\ [][CalibrateStep => calib_state' = "MOVING"]_vars

C4_Witness ==
    /\ SessionActive
    /\ calib_state = "MOVING"
    /\ calib_index = 1
    /\ collected_at = <<0>>

\* C5: in every state of a calibration session the dot radius is within
\* [r_min, r_max] = [2, 30].
C5_RadiusInBounds ==
    calib_window # 0 => calib_r_min <= calib_r /\ calib_r <= calib_r_max

C5_Witness ==
    /\ SessionActive
    /\ calib_state = "GROWING"
    /\ calib_r = calib_r_min
    /\ collects # <<>>

\* The dot is within tolerance of target number i (from 0) on both axes.
AtTarget(i) ==
    /\ is_close(calib_pos[1], calib_targets[i + 1][1])
    /\ is_close(calib_pos[2], calib_targets[i + 1][2])

\* C6: while a session runs current_index is a valid index into the targets; it
\* starts at 0 and only changes by +1, on a GROWING tick at r_max that is not on the
\* last target; data is collected at the targets in list order, each one once, with
\* the dot on the target current_index names.
C6_IndexInOrder ==
    /\ [](calib_window # 0 => calib_index \in 0..LastIndex)
    /\ [][CalibrateStep => calib_index' = 0]_vars
    /\ [][~CalibrateStep =>
            \/ calib_index' = calib_index
            \/ /\ calib_index' = calib_index + 1
               /\ calib_state = "GROWING"
               /\ is_close(Milli * calib_r, Milli * calib_r_max)
               /\ calib_index # LastIndex]_vars
    /\ [](calib_window # 0 =>
            \A i \in 1..Len(collected_at) : collected_at[i] = i - 1)
    /\ [](collects # <<>> =>
            /\ collected_at[Len(collected_at)] = calib_index
            /\ AtTarget(calib_index))

C6_Witness ==
    /\ SessionClosed
    /\ collected_at = <<0, 1, 2, 3, 4>>
    /\ calib_index = LastIndex

\* The session is moving to the first target.
OnFirstLeg == SessionActive /\ calib_state = "MOVING" /\ calib_index = 0

\* C7: moving from (0.2, 0.6) to the first target (0.1, 0.2) in steps of 0.02, no tick
\* takes x or y further from the target, neither coordinate gets more than one step
\* past the target, and, the timers firing, the dot arrives on both axes and the
\* state becomes SHRINKING (unless the application is closed first).
C7_MovingApproaches ==
    /\ [][OnFirstLeg /\ ~CalibrateStep =>
            /\ Abs(calib_pos'[1] - calib_targets[1][1])
                 <= Abs(calib_pos[1] - calib_targets[1][1])
            /\ Abs(calib_pos'[2] - calib_targets[1][2])
                 <= Abs(calib_pos[2] - calib_targets[1][2])]_vars
    /\ []((calib_window # 0 /\ calib_index = 0) =>
            /\ calib_pos[1] >= calib_targets[1][1] - STEP
            /\ calib_pos[1] <= InitialPos[1]
            /\ calib_pos[2] >= calib_targets[1][2] - STEP
            /\ calib_pos[2] <= InitialPos[2])
    /\ [][OnFirstLeg /\ AtTarget(0) /\ TickStep =>
            calib_state' = "SHRINKING" /\ calib_pos' = calib_pos]_vars
    /\ (OnFirstLeg ~>
          \/ calib_state = "SHRINKING" /\ calib_index = 0 /\ AtTarget(0)
          \/ app = "exited")

C7_Witness ==
    /\ SessionActive
    /\ calib_state = "SHRINKING"
    /\ calib_index = 0
    /\ calib_pos = calib_targets[1]
    /\ sound_count = 1

\* C8: once prepare_to_close has cleared the enable flag, a device callback of either
\* feed changes nothing the projector shows: no marker, not the proximity
\* indicator, not the canvas size it keeps.
C8_DisabledCallbacksNoOp ==
    [][~callback_enabled => UNCHANGED <<display_vars, canvas>>]_vars

\* C9: when compute_and_apply or leave_calibration_mode raises in close_calibration,
\* one error box is shown, neither call is made again, nothing is plotted, and
\* close_calibration still destroys the calibration window, with no timer pending.
C9_FinalizationErrorShownOnce ==
    finalize_outcome \in {"compute_raises", "leave_raises"} =>
        /\ errors_shown = 1
        /\ close_calls = 1
        /\ compute_calls = 1
        /\ leave_calls = (IF finalize_outcome = "leave_raises" THEN 1 ELSE 0)
        /\ plots = 0
        /\ SessionClosed
        /\ timers = <<>>

C9_Witness ==
    /\ finalize_outcome = "compute_raises"
    /\ SessionClosed
    /\ errors_shown = 1
    /\ leave_calls = 0

\* The centre of a marker's oval, in thousandths of a pixel.
Centre(oval) ==
    <<(oval[1][1] + oval[3][1]) \div 2, (oval[2][1] + oval[4][1]) \div 2>>

\* Both points of a gaze sample are invalid.
BothInvalid(q) == isnan(q.left[1]) /\ isnan(q.right[1])

\* C10: after a gaze callback that found the callbacks enabled and the Gaze box
\* checked: both points invalid, the marker was not redrawn; one point valid, the
\* marker is at that point; both valid, the marker is at their component-wise
\* midpoint (points scaled by the canvas size).
C10_GazeMarkerPlacement ==
    /\ []((last_sample.feed = "gaze" /\ last_sample.display) =>
            IF BothInvalid(last_sample) THEN ~last_sample.plotted
            ELSE /\ last_sample.plotted
                 /\ gaze # NoMarker
                 /\ IF isnan(last_sample.left[1])
                    THEN Centre(gaze) = <<canvas[1] * last_sample.right[1][1],
                                          canvas[2] * last_sample.right[2][1]>>
                    ELSE IF isnan(last_sample.right[1])
                    THEN Centre(gaze) = <<canvas[1] * last_sample.left[1][1],
                                          canvas[2] * last_sample.left[2][1]>>
                    ELSE /\ 2 * Centre(gaze)[1] = canvas[1] *
                              (last_sample.left[1][1] + last_sample.right[1][1])
                         /\ 2 * Centre(gaze)[2] = canvas[2] *
                              (last_sample.left[2][1] + last_sample.right[2][1]))
    /\ [][(last_sample'.feed = "gaze" /\ BothInvalid(last_sample')) =>
            gaze' = gaze]_vars

\* Left (0.2, 0.2) and right (0.4, 0.4) on an 800 x 600 canvas: the marker is centred
\* on pixel (240, 180), which is (0.3, 0.3).
C10_Witness ==
    /\ last_sample.feed = "gaze"
    /\ last_sample.display
    /\ last_sample.left = <<Num(200), Num(200)>>
    /\ last_sample.right = <<Num(400), Num(400)>>
    /\ canvas = <<800, 600>>
    /\ Centre(gaze) = <<240000, 180000>>

\* The shape an item of the plot canvas or of the image is: a circle by its centre,
\* radius and colour, a line by its end points and colour.
ShapeOf(it) ==
    CASE it.item = "oval" ->
           <<"circle", (it.coords[1][1] + it.coords[3][1]) \div 2,
             (it.coords[2][1] + it.coords[4][1]) \div 2,
             (it.coords[3][1] - it.coords[1][1]) \div 2, it.outline>>
      [] it.item = "circle" ->
           <<"circle", it.xy[1][1], it.xy[2][1], it.radius[1], it.outline>>
      [] OTHER -> <<"line", it.coords, it.fill>>

ShapesOf(items) == [k \in 1..Len(items) |-> ShapeOf(items[k])]

CirclesOf(shapes) == SelectSeq(shapes, LAMBDA sh : sh[1] = "circle")
LinesOf(shapes) == SelectSeq(shapes, LAMBDA sh : sh[1] = "line")

\* The (point, sample, eye) triples of the result whose validity is 'valid and used'.
UsedPairs ==
    {p \in {<<i, j, eye>> : i \in 1..Len(result.calibration_points),
                            j \in 1..MaxSamples, eye \in {"left_eye", "right_eye"}} :
       /\ p[2] <= Len(result.calibration_points[p[1]].calibration_samples)
       /\ result.calibration_points[p[1]].calibration_samples[p[2]][p[3]].validity
            = VALIDITY_VALID_AND_USED}

\* The line the claim asks for a used pair: from the target position to the eye's
\* position, both scaled by the view's size, in the eye's colour.
LineFor(p) ==
    LET point == result.calibration_points[p[1]]
        position == point.position_on_display_area
        reported == point.calibration_samples[p[2]][p[3]].position_on_display_area
    IN  <<"line",
          <<Num(plot_canvas.width * position[1][1]),
            Num(plot_canvas.height * position[2][1]),
            Num(plot_canvas.width * reported[1][1]),
            Num(plot_canvas.height * reported[2][1])>>,
          IF p[3] = "left_eye" THEN "red" ELSE "green">>

\* C11: once plot_calibration has drawn a result, the plot shows one circle per
\* calibration point, centred on the point, and one line per (sample, eye) pair that
\* is 'valid and used', from the point to that eye's position in that eye's colour
\* (left red, right green), and no other line; the image saved to the file holds the
\* same shapes as the plot window.
C11_OneCirclePerPointOneLinePerUsedEye ==
    plot_canvas # NoPlot =>
        LET shapes == ShapesOf(plot_canvas.items)
            circles == CirclesOf(shapes)
            lines == LinesOf(shapes)
            points == result.calibration_points
        IN  /\ Len(circles) = Len(points)
            /\ \A i \in 1..Len(points) :
                  circles[i] =
                    <<"circle",
                      plot_canvas.width * points[i].position_on_display_area[1][1],
                      plot_canvas.height * points[i].position_on_display_area[2][1],
                      PlotRadius * Milli, "black">>
            /\ Len(lines) = Cardinality(UsedPairs)
            /\ \A k \in 1..Len(lines) : \E p \in UsedPairs : lines[k] = LineFor(p)
            /\ \A p \in UsedPairs :
                  Cardinality({k \in 1..Len(lines) : lines[k] = LineFor(p)})
                    = Cardinality({q \in UsedPairs : LineFor(q) = LineFor(p)})
            /\ Len(shapes) = Len(circles) + Len(lines)
            /\ ShapesOf(plot_image.items) = shapes
            /\ image_file = plot_image

\* Two points, the first with one sample whose left eye was used and whose right eye
\* was valid but not used: two circles and one red line.
C11_Witness ==
    /\ plot_canvas # NoPlot
    /\ Len(result.calibration_points) = 2
    /\ Len(result.calibration_points[1].calibration_samples) = 1
    /\ result.calibration_points[1].calibration_samples[1].left_eye.validity
         = VALIDITY_VALID_AND_USED
    /\ result.calibration_points[1].calibration_samples[1].right_eye.validity
         = "valid_but_not_used"
    /\ result.calibration_points[2].calibration_samples = <<>>
    /\ Len(plot_canvas.items) = 3
    /\ plot_canvas.items[2].fill = "red"
    /\ image_file.items # <<>>

\* Every target in list order, each with MOVING, SHRINKING and GROWING once.
FullPhaseLog ==
    [k \in 1..3 * Len(calib_targets) |->
        <<(k - 1) \div 3, <<"MOVING", "SHRINKING", "GROWING">>[((k - 1) % 3) + 1]>>]

\* C12: the timers firing, a session started by calibrate() gets to its terminal
\* state (unless the application is closed first), and a session that has got there
\* went through MOVING, SHRINKING and GROWING once for each of the five targets, in
\* list order, and issued data collection for each target.
C12_SessionTerminates ==
    /\ (SessionActive ~> (SessionClosed \/ app = "exited"))
    /\ [](SessionClosed =>
            /\ phase_log = FullPhaseLog
            /\ collected_at = [i \in 1..Len(calib_targets) |-> i - 1])

C12_Witness ==
    /\ SessionClosed
    /\ phase_log = FullPhaseLog
    /\ Len(phase_log) = 15
    /\ Len(collected_at) = 5

\* The value the claim gives the proximity indicator for a position sample, in
\* thousandths.
ProximityFor(q) ==
    IF isnan(q.left[3]) /\ isnan(q.right[3]) THEN 0
    ELSE IF isnan(q.left[3]) THEN 100 * q.right[3][1]
    ELSE IF isnan(q.right[3]) THEN 100 * q.left[3][1]
    ELSE 50 * (q.left[3][1] + q.right[3][1])

\* C13: after every position callback the proximity indicator shows the value of the
\* sample's two z values: 0 with both invalid, 100 times the valid z with one valid,
\* 50 times their sum with both valid; the value is within [0, 100].
C13_ProximityFromZ ==
    last_sample.feed = "position" =>
        /\ dist_bar = ProximityFor(last_sample)
        /\ 0 <= dist_bar
        /\ dist_bar <= 100 * Milli

\* A step in which select_eyetracker() ran and something came of it.
SelectStep ==
    /\ app' = app
    /\ <<et_var, et, subscribed, select_result>>' #
         <<et_var, et, subscribed, select_result>>

\* No eye tracker enumerated now has this label.
NotEnumerated(label) == \A d \in attached : Label(d) # label

\* C14: select_eyetracker() for a label whose device is not among the eye trackers
\* enumerated now raises, subscribes neither feed and leaves self.et as it was.
C14_SelectMissingDeviceRaises ==
    [][(SelectStep /\ NotEnumerated(et_var')) =>
          /\ select_result' = "raised"
          /\ et' = et
          /\ subscribed' = subscribed]_vars

\* The Spectrum was offered, then unplugged, then selected: the selection raised and
\* the Nano is still the device in use.
C14_Witness ==
    /\ select_result = "raised"
    /\ et_var # NoLabel
    /\ NotEnumerated(et_var)
    /\ et # NoDevice
    /\ Label(et) # et_var
    /\ subscribed = {et}

\* C15: close_calibration asks the device for compute_and_apply first and for
\* leave_calibration_mode after it, each at most once in a session; neither call is
\* made while the trajectory runs (in MOVING, in SHRINKING, in GROWING before the
\* last target's dot is back at r_max), and both come after the last target's data
\* collection.
C15_ComputeBeforeLeaveAfterLastCollect ==
    /\ [](final_calls \in {<<>>, <<"compute_and_apply">>,
                           <<"compute_and_apply", "leave_calibration_mode">>})
    /\ [](/\ compute_calls = (IF final_calls # <<>> THEN 1 ELSE 0)
          /\ leave_calls = (IF Len(final_calls) = 2 THEN 1 ELSE 0))
    /\ [](SessionActive => final_calls = <<>>)
    /\ [](final_calls # <<>> =>
            /\ SessionClosed
            /\ calib_state = "GROWING"
            /\ calib_index = LastIndex
            /\ collected_at = [i \in 1..Len(calib_targets) |-> i - 1])
    /\ [][(final_calls' # final_calls /\ ~CalibrateStep) =>
            /\ AtFinalGrow
            /\ collected_at[Len(collected_at)] = LastIndex]_vars

C15_Witness ==
    /\ final_calls = <<"compute_and_apply", "leave_calibration_mode">>
    /\ finalize_outcome = "leave_raises"
    /\ SessionClosed
    /\ collected_at[Len(collected_at)] = LastIndex

\* C16: plot_calibration is called in a session exactly when compute_and_apply and
\* leave_calibration_mode have both returned, and then once; when either raises there
\* is no plot and no image file is saved; nothing is plotted or saved before
\* finalization.
C16_PlotIffFinalizationSucceeded ==
    /\ plots = (IF finalize_outcome = "ok" THEN 1 ELSE 0)
    /\ image_saves = plots
    /\ (finalize_outcome = "ok" =>
          /\ SessionClosed
          /\ final_calls = <<"compute_and_apply", "leave_calibration_mode">>
          /\ errors_shown = 0)
    /\ (SessionActive => finalize_outcome = "none")

C16_Witness ==
    /\ finalize_outcome = "ok"
    /\ plots = 1
    /\ image_saves = 1
    /\ SessionClosed

\* The radius is within tolerance of r_min.
AtMinRadius == is_close(Milli * calib_r, Milli * calib_r_min)

\* C17: a SHRINKING tick with the radius not within tolerance of r_min takes exactly
\* STEP_R off the radius and collects nothing; data collection happens only on a
\* SHRINKING tick with the radius within tolerance of r_min, with the dot within
\* tolerance of targets[calib_index] on both axes; no SHRINKING or GROWING tick moves
\* the dot and no SHRINKING tick changes calib_index.
C17_ShrinkingFrame ==
    /\ [][(TickStep /\ calib_state = "SHRINKING" /\ ~AtMinRadius) =>
            /\ calib_r' = calib_r - STEP_R
            /\ collects' = <<>>
            /\ collected_at' = collected_at
            /\ calib_state' = "SHRINKING"]_vars
    /\ [][(TickStep /\ (collects' # <<>> \/ collected_at' # collected_at)) =>
            /\ calib_state = "SHRINKING"
            /\ AtMinRadius
            /\ AtTarget(calib_index)
            /\ collects' # <<>>
            /\ collected_at' = Append(collected_at, calib_index)]_vars
    /\ [][CalibrateStep => collects' = <<>> /\ collected_at' = <<>>]_vars
    /\ [][(TickStep /\ calib_state \in {"SHRINKING", "GROWING"}) =>
            calib_pos' = calib_pos]_vars
    /\ [][(TickStep /\ calib_state = "SHRINKING") => calib_index' = calib_index]_vars

C17_Witness ==
    /\ SessionActive
    /\ calib_state = "SHRINKING"
    /\ calib_r = calib_r_min + STEP_R
    /\ calib_index = 3
    /\ AtTarget(3)
    /\ collected_at = <<0, 1, 2>>

\* The coordinate a MOVING tick leaves axis a at: unchanged when it is within
\* tolerance of the target's, one STEP nearer the target's when it is not.
MovedAxis(a) ==
    LET tgt == calib_targets[calib_index + 1][a]
    IN  IF is_close(calib_pos[a], tgt) THEN calib_pos[a]
        ELSE IF tgt > calib_pos[a] THEN calib_pos[a] + STEP
        ELSE calib_pos[a] - STEP

\* C18: a MOVING tick with the dot not yet at the target moves each axis that is not
\* within tolerance by exactly STEP towards the target and leaves an axis that is
\* within tolerance alone, with radius, calib_index and phase unchanged (so does the
\* first step, which calibrate() takes itself); a MOVING tick with the dot at the
\* target on both axes leaves position and radius unchanged.
C18_MovingFrame ==
    /\ [][(TickStep /\ calib_state = "MOVING" /\ ~AtTarget(calib_index)) =>
            /\ calib_pos' = <<MovedAxis(1), MovedAxis(2)>>
            /\ calib_r' = calib_r
            /\ calib_index' = calib_index
            /\ calib_state' = "MOVING"]_vars
    /\ [][(TickStep /\ calib_state = "MOVING" /\ AtTarget(calib_index)) =>
            /\ calib_pos' = calib_pos
            /\ calib_r' = calib_r]_vars
    /\ [][CalibrateStep =>
            /\ calib_pos' = <<InitialPos[1] - STEP, InitialPos[2] - STEP>>
            /\ calib_r' = InitialRadius
            /\ calib_index' = 0
            /\ calib_state' = "MOVING"]_vars

\* On the way from the first target (0.1, 0.2) to the second (0.9, 0.2): y has
\* arrived and stays, x has taken one step.
C18_Witness ==
    /\ SessionActive
    /\ calib_state = "MOVING"
    /\ calib_index = 1
    /\ calib_pos = <<calib_targets[1][1] + STEP, calib_targets[2][2]>>
    /\ calib_r = calib_r_max

\* C19: play_sound is called on the tick that takes the session from MOVING to
\* SHRINKING and on no other step, once for each target; a target's cue comes before
\* its data collection; a session that has run to its end has played as many cues as
\* there are targets.
C19_CueOncePerTarget ==
    /\ [][(~CalibrateStep /\ sound_count' # sound_count) =>
            /\ sound_count' = sound_count + 1
            /\ calib_state = "MOVING"
            /\ calib_state' = "SHRINKING"]_vars
    /\ [][(~CalibrateStep /\ calib_state = "MOVING" /\ calib_state' = "SHRINKING") =>
            sound_count' = sound_count + 1]_vars
    /\ [][CalibrateStep => sound_count' = 0]_vars
    /\ [](calib_window # 0 =>
            /\ sound_count = (IF calib_state = "MOVING" THEN calib_index
                              ELSE calib_index + 1)
            /\ Len(collected_at) <= sound_count)
    /\ [](SessionClosed => sound_count = Len(calib_targets))

C19_Witness ==
    /\ SessionClosed
    /\ sound_count = Len(calib_targets)
    /\ Len(collected_at) = sound_count
    /\ finalize_outcome = "ok"

\* A step of user_position_guide_callback in which something came of the sample.
PositionStep ==
    /\ last_sample'.feed = "position"
    /\ <<eye_left, eye_right, dist_bar, last_sample>>' #
         <<eye_left, eye_right, dist_bar, last_sample>>

\* The oval of an eye marker at (1 - raw x, raw y) of the eye's position p.
MarkerFor(p) ==
    Oval(FTimes(canvas[1], FSub(Num(Milli), p[1])), FTimes(canvas[2], p[2]))

\* C20: on a position callback with the Eyes box checked (and the canvas size known),
\* the marker of an eye whose position is valid is put at (1 - raw x, raw y) of that
\* eye, and the marker of an eye whose position is invalid stays where it was.
C20_EyeMarkersByOwnValidity ==
    [][(PositionStep /\ eye_var = 1 /\ canvas # <<>>) =>
          /\ eye_left' = (IF isnan(last_sample'.left[1]) THEN eye_left
                          ELSE MarkerFor(last_sample'.left))
          /\ eye_right' = (IF isnan(last_sample'.right[1]) THEN eye_right
                           ELSE MarkerFor(last_sample'.right))]_vars

\* The markers the projector has on the canvas.
Markers == {"gaze", "eye_left", "eye_right"}
MarkerOf(m) == IF m = "gaze" THEN gaze ELSE IF m = "eye_left" THEN eye_left ELSE eye_right
\* The oval of an eye marker for the position p on a canvas of size cv.
MarkerAt(p, cv) == Oval(FTimes(cv[1], FSub(Num(Milli), p[1])), FTimes(cv[2], p[2]))

\* C21: over any sequence of gaze and position callbacks each of the three markers is
\* created at most once, by the plot that finds its attribute None; a plot that finds
\* the marker moves it and creates nothing, and the marker is never dropped; so the
\* canvas never holds more than three markers.
C21_MarkersCreatedOnce ==
    /\ [](\A m \in Markers :
            /\ created[m] \in {0, 1}
            /\ created[m] = 1 <=> MarkerOf(m) # NoMarker)
    /\ [](created["gaze"] + created["eye_left"] + created["eye_right"] <= 3)
    /\ [][\A m \in Markers :
            /\ MarkerOf(m) # NoMarker => (MarkerOf(m)' # NoMarker /\ created'[m] = created[m])
            /\ (MarkerOf(m) = NoMarker /\ MarkerOf(m)' # NoMarker) => created'[m] = 1]_vars

\* All three markers exist, each created once, and the left eye marker has been moved
\* since the right one was last drawn (the two are on different canvas sizes).
C21_Witness ==
    /\ \A m \in Markers : created[m] = 1
    /\ gaze # NoMarker
    /\ \E p \in LeftPositions : eye_left = MarkerAt(p, <<500, 500>>) /\ ~HasNaN(eye_left)
    /\ \E q \in RightPositions : eye_right = MarkerAt(q, <<800, 600>>) /\ ~HasNaN(eye_right)

\* C23: for any sequence of Calibrate requests and ticks there is at most one
\* calibration session (one calibration window) at a time, with one chain of
\* run_calibration timers: at most one timer is pending at any moment, and
\* enter_calibration_mode and close_calibration are each called at most once in a
\* started session.
C23_OneSessionOneTickChain ==
    /\ Cardinality(windows) <= 1
    /\ Len(timers) <= 1
    /\ enter_calls <= 1
    /\ close_calls <= 1

\* The position sample just delivered has both eyes valid.
BothEyesValid(sample) == ~isnan(sample.left[1]) /\ ~isnan(sample.right[1])

\* C24: in any interleaving of gaze and position callbacks, also when a position
\* sample comes before any gaze sample, a position callback with the Eyes box
\* checked (and both eyes valid) does not raise: the canvas size it uses is defined,
\* and both eye markers are put at their positions on a canvas of that size.
C24_PositionFeedNeedsNoGazeSample ==
    [][(PositionStep /\ eye_var = 1 /\ BothEyesValid(last_sample')) =>
          /\ ~last_sample'.raised
          /\ canvas # <<>>
          /\ eye_left' = MarkerFor(last_sample'.left)
          /\ eye_right' = MarkerFor(last_sample'.right)]_vars

\* A step of one of the two callbacks (the check boxes are left alone).
CallbackStep ==
    /\ projector_vars' # projector_vars
    /\ eye_var' = eye_var
    /\ gaze_var' = gaze_var

\* The session after the tick is what run_calibration makes of the session before it
\* and of what the device answered, whatever the projector holds.
TickFromSessionOnly ==
    \E st1 \in CollectStatuses, st2 \in CollectStatuses :
        LET res == run_calibration(Session(calib_state, calib_pos, calib_r, calib_index),
                                   st1, st2)
        IN  /\ calib_state' = res.state
            /\ calib_pos' = res.pos
            /\ calib_r' = res.r
            /\ calib_index' = res.index

\* C22: in any interleaving of ticks with gaze and position callbacks, a callback leaves
\* the session (phase, index, dot position, radius) as it is, a tick leaves the
\* projector (gaze marker, eye markers, proximity indicator, callback_enabled) as it is
\* and takes the session where run_calibration takes it from the session state alone,
\* so the session goes through the same phases as with no callbacks.
C22_SessionAndProjectorApart ==
    /\ [][CallbackStep =>
            UNCHANGED <<calib_state, calib_index, calib_pos, calib_r>>]_vars
    /\ [][(TickStep \/ CalibrateStep) =>
            UNCHANGED <<gaze, eye_left, eye_right, dist_bar, callback_enabled>>]_vars
    /\ [][TickStep => TickFromSessionOnly]_vars
    /\ [](SessionClosed => phase_log = FullPhaseLog)

\* A session that has run to its end with samples of both feeds plotted on its last
\* leg.
C22_Witness ==
    /\ SessionClosed
    /\ phase_log = FullPhaseLog
    /\ \A m \in Markers : MarkerOf(m) # NoMarker
    /\ dist_bar # InitialDistBar * Milli

====
